---- MODULE Spec2Model ----
(***************************************************************************)
(* Model of convert_ios.py: the aggregation of localization archives into  *)
(* one SQLite store (relations Files and Localizations).                   *)
(*                                                                         *)
(* The store is modelled by what the SQL statements of the source do on    *)
(* the schema created by create_table; the driver (main, convert, mount,   *)
(* add_localization_project) is modelled as a sequential state machine     *)
(* whose inputs (archives, documents, files, text items) are drawn from    *)
(* small sets at each step.                                                *)
(***************************************************************************)
EXTENDS Integers, Sequences, FiniteSets, TLC

(***************************************************************************)
(* Bounds of the model.                                                    *)
(***************************************************************************)
\* number of archives (filenames) main may be given
MaxArchives == 2
\* number of File elements processed in one run
MaxFiles == 2
\* number of TextItem elements processed in one run
MaxItems == 2

(***************************************************************************)
(* Values.                                                                 *)
(***************************************************************************)
\* the SQL NULL / Python None
NULL == "NULL"
\* no locale code
NoLoc == <<>>

\* Locale codes are character sequences, so that format_language is modelled
\* by the replacement it performs.
en == <<"e", "n">>
fr == <<"f", "r">>
de == <<"d", "e">>
is == <<"i", "s">>
pt_dash_BR == <<"p", "t", "-", "B", "R">>

Locs == {en, fr, de, is, pt_dash_BR}

Projects == {"App", "Other"}
Paths == {"A/B.strings", "C.strings"}
\* the (ProjName, Filepath) pairs of the documents
FileEntries ==
    {f \in Projects \X Paths : f # <<"Other", "C.strings">>}
Descriptions == {"title", "other"}
Positions == {"0"}

\* <base loc="..">text</base>
BasePairs ==
    { [loc |-> en, text |-> "Hello"],
      [loc |-> en, text |-> "Hi"],
      [loc |-> fr, text |-> "Bonjour"] }

\* <tran loc="..">text</tran>
TranPairs ==
    { [loc |-> en, text |-> "Hi"],
      [loc |-> fr, text |-> "Bonjour"],
      [loc |-> fr, text |-> "Salut"],
      [loc |-> de, text |-> "Hallo"],
      [loc |-> pt_dash_BR, text |-> "Ola"],
      [loc |-> is, text |-> "Godan dag"] }

\* the tran elements of the TranslationSets that hold two
PairedTrans == {t \in TranPairs : t.text \in {"Bonjour", "Hallo"}}

\* A TranslationSet holds zero, one or two tran elements.
TranSeqs ==
    {<<>>} \cup {<<t>> : t \in TranPairs}
           \cup {p \in PairedTrans \X PairedTrans : p[1] # p[2]}

\* The TextItem elements of the documents; the description varies on the
\* items whose base text is "Hello".
TextItems ==
    {it \in [description : Descriptions, position : Positions,
             base : BasePairs, trans : TranSeqs] :
        it.description = "title" \/ it.base.text = "Hello"}

Range(s) == {s[i] : i \in 1..Len(s)}

(***************************************************************************)
(* format_language: every '-' becomes '_'.                                 *)
(***************************************************************************)
format_language(lang) ==
    [i \in 1..Len(lang) |-> IF lang[i] = "-" THEN "_" ELSE lang[i]]

(***************************************************************************)
(* The schema of create_table and the SQL statements of the source.        *)
(***************************************************************************)
\* en TEXT NOT NULL
NotNullColumns == {en}

\* the language columns after create_table
create_table_columns == <<en>>

OK == "ok"
OperationalError == "OperationalError"
IntegrityError == "IntegrityError"

\* Words the SQL grammar does not accept as a bare column name.
Keywords == {is}

\* A name the statements of the source can splice in as a column name.
IsIdentifier(name) ==
    /\ name \notin Keywords
    /\ \A i \in 1..Len(name) : name[i] # "-"

\* LocalizationIndex: the key of the unique index on Localizations.
LocalizationIndex(r) == <<r.file_id, r.position>>

\* ALTER TABLE Localizations ADD COLUMN <name> TEXT: the new column is NULL
\* on every existing row.
AlterTableAddColumn_no_duplicate_check(cols, rws, name) ==
    IF ~IsIdentifier(name)
    THEN [err |-> OperationalError, msg |-> "syntax error",
          columns |-> cols, rows |-> rws]
    ELSE [err |-> OK, msg |-> "",
          columns |-> Append(cols, name),
          rows |-> [i \in 1..Len(rws) |->
                      [rws[i] EXCEPT !.lang = (name :> NULL) @@ @]]]

AlterTableAddColumn(cols, rws, name) ==
    IF ~IsIdentifier(name)
    THEN [err |-> OperationalError, msg |-> "syntax error",
          columns |-> cols, rows |-> rws]
    ELSE IF name \in Range(cols)
    THEN [err |-> OperationalError, msg |-> "duplicate column name",
          columns |-> cols, rows |-> rws]
    ELSE [err |-> OK, msg |-> "",
          columns |-> Append(cols, name),
          rows |-> [i \in 1..Len(rws) |->
                      [rws[i] EXCEPT !.lang = (name :> NULL) @@ @]]]

\* UPDATE Localizations SET <col> = ? WHERE file_id = ? AND position = ?
UpdateLocalizations_clears_others(cols, rws, col, val, fid, pos) ==
    IF ~IsIdentifier(col) \/ col \notin Range(cols)
    THEN [err |-> OperationalError, rows |-> rws, rowcount |-> 0]
    ELSE LET hit == {i \in 1..Len(rws) :
                        rws[i].file_id = fid /\ rws[i].position = pos}
         IN  IF hit # {} /\ col \in NotNullColumns /\ val = NULL
             THEN [err |-> IntegrityError, rows |-> rws, rowcount |-> 0]
             ELSE [err |-> OK,
                   rows |-> [i \in 1..Len(rws) |->
                               IF i \in hit
                               THEN [rws[i] EXCEPT !.lang =
                                       [c \in DOMAIN @ |->
                                          IF c = col THEN val
                                          ELSE IF c \in NotNullColumns THEN @[c]
                                          ELSE NULL]]
                               ELSE rws[i]],
                   rowcount |-> Cardinality(hit)]

UpdateLocalizations(cols, rws, col, val, fid, pos) ==
    IF ~IsIdentifier(col) \/ col \notin Range(cols)
    THEN [err |-> OperationalError, rows |-> rws, rowcount |-> 0]
    ELSE LET hit == {i \in 1..Len(rws) :
                        rws[i].file_id = fid /\ rws[i].position = pos}
         IN  IF hit # {} /\ col \in NotNullColumns /\ val = NULL
             THEN [err |-> IntegrityError, rows |-> rws, rowcount |-> 0]
             ELSE [err |-> OK,
                   rows |-> [i \in 1..Len(rws) |->
                               IF i \in hit
                               THEN [rws[i] EXCEPT !.lang[col] = val]
                               ELSE rws[i]],
                   rowcount |-> Cardinality(hit)]

\* INSERT INTO Localizations (file_id, position, description, <bcol>, <tcol>)
\* VALUES (?, ?, ?, ?, ?): a column named twice takes the first value; the
\* NOT NULL columns, the unique index and the foreign key are enforced.
InsertLocalizations_en_nullable(cols, rws, fls, fid, pos, desc, bcol, bval, tcol, tval) ==
    IF \/ ~IsIdentifier(bcol) \/ ~IsIdentifier(tcol)
       \/ bcol \notin Range(cols) \/ tcol \notin Range(cols)
    THEN [err |-> OperationalError, rows |-> rws]
    ELSE LET lang == [c \in Range(cols) |->
                        IF c = bcol THEN bval
                        ELSE IF c = tcol THEN tval ELSE NULL]
             new == [file_id |-> fid, position |-> pos,
                     description |-> desc, lang |-> lang]
         IN  IF \/ pos = NULL
                \/ \E i \in 1..Len(rws) :
                      LocalizationIndex(rws[i]) = LocalizationIndex(new)
                \/ fid \notin {fls[i].id : i \in 1..Len(fls)}
             THEN [err |-> IntegrityError, rows |-> rws]
             ELSE [err |-> OK, rows |-> Append(rws, new)]

InsertLocalizations(cols, rws, fls, fid, pos, desc, bcol, bval, tcol, tval) ==
    IF \/ ~IsIdentifier(bcol) \/ ~IsIdentifier(tcol)
       \/ bcol \notin Range(cols) \/ tcol \notin Range(cols)
    THEN [err |-> OperationalError, rows |-> rws]
    ELSE LET lang == [c \in Range(cols) |->
                        IF c = bcol THEN bval
                        ELSE IF c = tcol THEN tval ELSE NULL]
             new == [file_id |-> fid, position |-> pos,
                     description |-> desc, lang |-> lang]
         IN  IF \/ pos = NULL
                \/ \E c \in NotNullColumns : lang[c] = NULL
                \/ \E i \in 1..Len(rws) :
                      LocalizationIndex(rws[i]) = LocalizationIndex(new)
                \/ fid \notin {fls[i].id : i \in 1..Len(fls)}
             THEN [err |-> IntegrityError, rows |-> rws]
             ELSE [err |-> OK, rows |-> Append(rws, new)]

(***************************************************************************)
(* add_file: look the path up, insert it when it is not there.             *)
(***************************************************************************)
\* INSERT INTO Files (project, path) VALUES (?, ?): project and path are
\* NOT NULL, path is UNIQUE, id is AUTOINCREMENT (rows are never deleted).
InsertFiles(fls, project, path) ==
    IF \/ project = NULL \/ path = NULL
       \/ \E i \in 1..Len(fls) : fls[i].path = path
    THEN [err |-> IntegrityError, files |-> fls, lastrowid |-> 0]
    ELSE [err |-> OK,
          files |-> Append(fls, [id |-> Len(fls) + 1,
                                 project |-> project, path |-> path]),
          lastrowid |-> Len(fls) + 1]

add_file_by_project_and_path(fls, project, path) ==
    LET cursor == {i \in 1..Len(fls) :
                      fls[i].path = path /\ fls[i].project = project}
    IN  IF cursor # {}
        THEN [raised |-> OK, files |-> fls,
              id |-> fls[CHOOSE i \in cursor : \A j \in cursor : i <= j].id]
        ELSE LET ins == InsertFiles(fls, project, path)
             IN  [raised |-> ins.err, files |-> ins.files, id |-> ins.lastrowid]

add_file_insert_lost(fls, project, path) ==
    LET cursor == {i \in 1..Len(fls) : fls[i].path = path}
    IN  IF cursor # {}
        THEN [raised |-> OK, files |-> fls,
              id |-> fls[CHOOSE i \in cursor : \A j \in cursor : i <= j].id]
        ELSE LET ins == InsertFiles(fls, project, path)
             IN  [raised |-> ins.err, files |-> fls, id |-> ins.lastrowid]

add_file(fls, project, path) ==
    LET cursor == {i \in 1..Len(fls) : fls[i].path = path}
    IN  IF cursor # {}
        THEN [raised |-> OK, files |-> fls,
              id |-> fls[CHOOSE i \in cursor : \A j \in cursor : i <= j].id]
        ELSE LET ins == InsertFiles(fls, project, path)
             IN  [raised |-> ins.err, files |-> ins.files, id |-> ins.lastrowid]

(***************************************************************************)
(* add_text_item: one transaction; for every tran element an UPDATE, and   *)
(* an INSERT when the UPDATE touched no row.                               *)
(***************************************************************************)
\* The body of the loop for the k-th tran element, on the rows rws.
upsert_blind_insert(cols, fls, rws, item, fid, k) ==
    LET tran == item.trans[k]
        col == format_language(tran.loc)
        bcol == format_language(item.base.loc)
    IN  [err |-> OK,
         rows |-> Append(rws,
                    [file_id |-> fid, position |-> item.position,
                     description |-> item.description,
                     lang |-> [c \in Range(cols) |->
                                 IF c = bcol THEN item.base.text
                                 ELSE IF c = col THEN tran.text ELSE NULL]]),
         rowcount |-> 0, inserted |-> 1]

upsert_overwrites_base(cols, fls, rws, item, fid, k) ==
    LET tran == item.trans[k]
        tran_language == format_language(tran.loc)
        base_language == format_language(item.base.loc)
        upd == UpdateLocalizations(cols, rws, tran_language, tran.text,
                                   fid, item.position)
        both == UpdateLocalizations(cols, upd.rows, base_language,
                                    item.base.text, fid, item.position)
    IN  IF upd.err # OK
        THEN [err |-> upd.err, rows |-> rws, rowcount |-> 0, inserted |-> 0]
        ELSE IF upd.rowcount # 0
        THEN [err |-> both.err, rows |-> both.rows,
              rowcount |-> upd.rowcount, inserted |-> 0]
        ELSE LET ins == InsertLocalizations(cols, rws, fls, fid,
                            item.position, item.description,
                            base_language, item.base.text,
                            tran_language, tran.text)
             IN  [err |-> ins.err, rows |-> ins.rows, rowcount |-> 0,
                  inserted |-> IF ins.err = OK THEN 1 ELSE 0]

upsert_updates_description(cols, fls, rws, item, fid, k) ==
    LET tran == item.trans[k]
        tran_language == format_language(tran.loc)
        base_language == format_language(item.base.loc)
        upd == UpdateLocalizations(cols, rws, tran_language, tran.text,
                                   fid, item.position)
    IN  IF upd.err # OK
        THEN [err |-> upd.err, rows |-> rws, rowcount |-> 0, inserted |-> 0]
        ELSE IF upd.rowcount # 0
        THEN [err |-> OK,
              rows |-> [i \in 1..Len(upd.rows) |->
                          IF /\ upd.rows[i].file_id = fid
                             /\ upd.rows[i].position = item.position
                          THEN [upd.rows[i] EXCEPT
                                  !.description = item.description]
                          ELSE upd.rows[i]],
              rowcount |-> upd.rowcount, inserted |-> 0]
        ELSE LET ins == InsertLocalizations(cols, rws, fls, fid,
                            item.position, item.description,
                            base_language, item.base.text,
                            tran_language, tran.text)
             IN  [err |-> ins.err, rows |-> ins.rows, rowcount |-> 0,
                  inserted |-> IF ins.err = OK THEN 1 ELSE 0]

upsert(cols, fls, rws, item, fid, k) ==
    LET tran == item.trans[k]
        tran_language == format_language(tran.loc)
        base_language == format_language(item.base.loc)
        upd == UpdateLocalizations(cols, rws, tran_language, tran.text,
                                   fid, item.position)
    IN  IF upd.err # OK
        THEN [err |-> upd.err, rows |-> rws, rowcount |-> 0, inserted |-> 0]
        ELSE IF upd.rowcount # 0
        THEN [err |-> OK, rows |-> upd.rows,
              rowcount |-> upd.rowcount, inserted |-> 0]
        ELSE LET ins == InsertLocalizations(cols, rws, fls, fid,
                            item.position, item.description,
                            base_language, item.base.text,
                            tran_language, tran.text)
             IN  [err |-> ins.err, rows |-> ins.rows, rowcount |-> 0,
                  inserted |-> IF ins.err = OK THEN 1 ELSE 0]

\* The loop over the tran elements from the k-th on; st carries the rows,
\* the raised exception if any, and what the statements reported.
RECURSIVE for_tran(_, _, _, _, _, _)
for_tran(cols, fls, st, item, fid, k) ==
    IF k > Len(item.trans) \/ st.raised # OK
    THEN st
    ELSE LET r == upsert(cols, fls, st.rows, item, fid, k)
         IN  for_tran(cols, fls,
                      [rows |-> r.rows, raised |-> r.err,
                       inserts |-> st.inserts + r.inserted,
                       rowcounts |-> Append(st.rowcounts, r.rowcount)],
                      item, fid, k + 1)

\* with db: commit when the loop ends, roll back when a statement raises.
add_text_item_no_rollback(cols, fls, rws, item, fid) ==
    for_tran(cols, fls,
             [rows |-> rws, raised |-> OK, inserts |-> 0, rowcounts |-> <<>>],
             item, fid, 1)

add_text_item(cols, fls, rws, item, fid) ==
    LET st == for_tran(cols, fls,
                       [rows |-> rws, raised |-> OK, inserts |-> 0,
                        rowcounts |-> <<>>],
                       item, fid, 1)
    IN  IF st.raised # OK THEN [st EXCEPT !.rows = rws] ELSE st

(***************************************************************************)
(* add_language: ALTER TABLE, any OperationalError is passed over.         *)
(***************************************************************************)
add_language(cols, rws, language) ==
    LET r == AlterTableAddColumn(cols, rws, language)
    IN  [raised |-> IF r.err = OperationalError THEN OK ELSE r.err,
         swallowed |-> IF r.err = OperationalError THEN r.msg ELSE "",
         columns |-> r.columns, rows |-> r.rows]

(***************************************************************************)
(* The driver: main, convert, mount, add_localization_project.             *)
(***************************************************************************)
VARIABLES
    pc,             \* where main is: "main", "mounted", "add_language",
                    \* "project", "unwinding", "done", "aborted"
    archive,        \* how many of the filenames convert was called for
    mounted,        \* the archives whose disk image is attached
    usable,         \* whether hdiutil attach gave the current mount point
    language,       \* convert's language (the result of get_language)
    expect,         \* the loc of the first tran of files[0], until it is met
    Files,          \* the rows of Files, in id order
    columns,        \* the language columns of Localizations, in order
    Localizations,  \* the rows of Localizations, in rowid order
    file_id,        \* add_localization_project's file_id, 0 before add_file
    nfiles,         \* how many File elements were handed to add_file
    nitems,         \* how many text items were handed to add_text_item
    merged,         \* log: <<what the last add_text_item call was given
                    \* and did>>, <<>> before the first call
    registered,     \* log: what the last add_file call was given and returned
    first,          \* log: path -> what its first add_file call returned
    altered         \* log: the last add_language call and its statement

vars == <<pc, archive, mounted, usable, language, expect, Files, columns,
          Localizations, file_id, nfiles, nitems, merged, registered,
          first, altered>>

store == <<Files, columns, Localizations>>
logs == <<merged, registered, first, altered>>

NoMerge == <<>>

\* main after sqlite3.connect and create_table.
Init ==
    /\ pc = "main"
    /\ archive = 0
    /\ mounted = {}
    /\ usable = FALSE
    /\ language = NoLoc
    /\ expect = NoLoc
    /\ Files = <<>>
    /\ columns = create_table_columns
    /\ Localizations = <<>>
    /\ file_id = 0
    /\ nfiles = 0
    /\ nitems = 0
    /\ merged = NoMerge
    /\ registered = [project |-> NULL, path |-> NULL, raised |-> OK, id |-> 0]
    /\ first = [p \in Paths |-> [project |-> NULL, id |-> 0]]
    /\ altered = [language |-> NoLoc, err |-> OK, msg |-> "", raised |-> OK]

\* An exception that leaves convert is caught nowhere: main ends.
propagate_caught_per_archive == "main"

propagate == "aborted"

\* The finally clause of mount: hdiutil detach.
mount_finally_skipped_on_raise(m, a, raising) ==
    IF raising THEN m ELSE m \ {a}

mount_finally(m, a, raising) == m \ {a}

\* files = list(folder.glob('*.lg')): a folder nothing was attached to is
\* the empty temporary directory.
glob(attached, docs) == IF attached THEN docs ELSE <<>>

\* main's loop calls convert; mount creates the folder and runs hdiutil
\* attach, whose exit status is not looked at.  A further archive is taken
\* up while the run's File and TextItem elements are not used up.
mount ==
    /\ pc = "main"
    /\ archive < MaxArchives
    /\ nfiles < MaxFiles
    /\ nitems < MaxItems
    /\ \E outcome \in {"attached", "failed", "OSError"} :
          /\ archive' = archive + 1
          /\ IF outcome = "OSError"
             THEN /\ pc' = propagate
                  /\ usable' = FALSE
                  /\ mounted' = mounted
             ELSE /\ pc' = "mounted"
                  /\ usable' = (outcome = "attached")
                  /\ mounted' = IF outcome = "attached"
                                THEN mounted \cup {archive + 1}
                                ELSE mounted
    /\ language' = NoLoc
    /\ expect' = NoLoc
    /\ file_id' = 0
    /\ UNCHANGED <<store, nfiles, nitems, logs>>

\* files[0] and get_language: a document is given by the loc of its first
\* tran element, NoLoc when it has none; files[0] raises IndexError on an
\* empty list and next() raises StopIteration when there is no tran.
get_language ==
    /\ pc = "mounted"
    /\ \E docs \in {<<>>} \cup {<<l>> : l \in Locs \cup {NoLoc}} :
          LET files == glob(usable, docs)
          IN  IF files = <<>> \/ files[1] = NoLoc
              THEN /\ pc' = "unwinding"
                   /\ UNCHANGED <<language, expect>>
              ELSE /\ pc' = "add_language"
                   /\ language' = format_language(files[1])
                   /\ expect' = files[1]
    /\ UNCHANGED <<archive, mounted, usable, store, file_id, nfiles, nitems, logs>>

\* convert's call of add_language.
convert_add_language ==
    /\ pc = "add_language"
    /\ LET r == add_language(columns, Localizations, language)
           a == AlterTableAddColumn(columns, Localizations, language)
       IN  /\ columns' = r.columns
           /\ Localizations' = r.rows
           /\ altered' = [language |-> language, err |-> a.err,
                          msg |-> a.msg, raised |-> r.raised]
           /\ pc' = IF r.raised = OK THEN "project" ELSE "unwinding"
    /\ UNCHANGED <<archive, mounted, usable, language, expect, Files,
                   file_id, nfiles, nitems, merged, registered, first>>

\* add_localization_project: the next File element, of this document or of
\* the next one, with the document's ProjName.
project_add_file ==
    /\ pc = "project"
    /\ nfiles < MaxFiles
    /\ nfiles' = nfiles + 1
    /\ \E f \in FileEntries :
          LET project == f[1]
              path == f[2]
              r == add_file(Files, project, path)
          IN  /\ Files' = r.files
              /\ file_id' = IF r.raised = OK THEN r.id ELSE file_id
              /\ registered' = [project |-> project, path |-> path,
                                 raised |-> r.raised, id |-> r.id]
              /\ first' = IF first[path].id = 0 /\ r.raised = OK
                          THEN [first EXCEPT ![path] =
                                  [project |-> project, id |-> r.id]]
                          ELSE first
              /\ pc' = IF r.raised = OK THEN "project" ELSE "unwinding"
    /\ UNCHANGED <<archive, mounted, usable, language, expect, columns,
                   Localizations, nitems, merged, altered>>

\* add_localization_project: the next TextItem element of the current File.
\* The first tran element met in an archive is the one get_language read.
project_add_text_item ==
    /\ pc = "project"
    /\ file_id # 0
    /\ nitems < MaxItems
    /\ \E item \in TextItems :
          /\ (expect # NoLoc /\ item.trans # <<>>) => item.trans[1].loc = expect
          /\ LET r == add_text_item(columns, Files, Localizations, item, file_id)
             IN  /\ Localizations' = r.rows
                 /\ merged' = <<[item |-> item, file_id |-> file_id,
                                 columns |-> columns, pre |-> Localizations,
                                 raised |-> r.raised, inserts |-> r.inserts,
                                 rowcounts |-> r.rowcounts]>>
                 /\ pc' = IF r.raised = OK THEN "project" ELSE "unwinding"
          /\ expect' = IF item.trans # <<>> THEN NoLoc ELSE expect
    /\ nitems' = nitems + 1
    /\ UNCHANGED <<archive, mounted, usable, language, Files, columns,
                   file_id, nfiles, registered, first, altered>>

\* convert returns: the documents are exhausted and the with block is left.
convert_return ==
    /\ pc = "project"
    /\ expect = NoLoc
    /\ mounted' = mount_finally(mounted, archive, FALSE)
    /\ pc' = "main"
    /\ UNCHANGED <<archive, usable, language, expect, store, file_id,
                   nfiles, nitems, logs>>

\* An exception leaves the with block of convert.
convert_raise ==
    /\ pc = "unwinding"
    /\ mounted' = mount_finally(mounted, archive, TRUE)
    /\ pc' = propagate
    /\ UNCHANGED <<archive, usable, language, expect, store, file_id,
                   nfiles, nitems, logs>>

\* main: no filename is left.
main_done ==
    /\ pc = "main"
    /\ pc' = "done"
    /\ UNCHANGED <<archive, mounted, usable, language, expect, store,
                   file_id, nfiles, nitems, logs>>

Next ==
    \/ mount
    \/ get_language
    \/ convert_add_language
    \/ project_add_file
    \/ project_add_text_item
    \/ convert_return
    \/ convert_raise
    \/ main_done

Spec == Init /\ [][Next]_vars

(***************************************************************************)
(* Properties.                                                             *)
(***************************************************************************)
\* the rows of rws at the slot (fid, pos)
AtSlot(rws, fid, pos) ==
    {i \in 1..Len(rws) : rws[i].file_id = fid /\ rws[i].position = pos}

\* the rows the logged call found at the slot of its text item
Found(m) == AtSlot(m.pre, m.file_id, m.item.position)

\* the language columns the tran elements of a text item name
Targets(item) ==
    {format_language(item.trans[k].loc) : k \in 1..Len(item.trans)}

\* the (column, text) pairs a text item carries, base and tran together
Writes(item) ==
    {<<format_language(item.base.loc), item.base.text>>}
    \cup {<<format_language(item.trans[k].loc), item.trans[k].text>> :
             k \in 1..Len(item.trans)}

IsPrefix(a, b) == Len(a) <= Len(b) /\ \A i \in 1..Len(a) : a[i] = b[i]

\* a step that is one add_text_item call
MergeStep == nitems' = nitems + 1

\* C1: after any sequence of add_text_item calls Localizations holds at most
\* one record for each (file_id, position) pair.
C1_OneRecordPerSlot ==
    \A i, j \in 1..Len(Localizations) :
        LocalizationIndex(Localizations[i]) = LocalizationIndex(Localizations[j])
            => i = j

\* a later text item was merged into a slot that already held a record
C1_Witness ==
    /\ merged # <<>>
    /\ merged[1].raised = OK
    /\ merged[1].item.trans # <<>>
    /\ Found(merged[1]) # {}
    /\ Cardinality(AtSlot(Localizations, merged[1].file_id,
                          merged[1].item.position)) = 1

\* C2: merging the same text item with the same file id a second time in a
\* row raises nothing, leaves Localizations as the first merge left it, runs
\* no INSERT, and every UPDATE of it reports one row.
C2_SecondMergeChangesNothing ==
    [][(/\ MergeStep
        /\ merged # <<>>
        /\ merged[1].raised = OK
        /\ merged'[1].item = merged[1].item
        /\ merged'[1].file_id = merged[1].file_id)
       => (/\ merged'[1].raised = OK
           /\ Localizations' = Localizations
           /\ merged'[1].inserts = 0
           /\ \A k \in 1..Len(merged'[1].rowcounts) :
                 merged'[1].rowcounts[k] = 1)]_vars

\* C3: every add_file call returns, for its path, the id the first call with
\* that path returned, whatever the project; Files holds one record for the
\* path, with the project of the first call.
C3_SamePathSameId ==
    /\ registered.path # NULL =>
          /\ registered.raised = OK
          /\ registered.id = first[registered.path].id
    /\ \A p \in Paths :
          LET recs == {i \in 1..Len(Files) : Files[i].path = p}
          IN  IF first[p].id = 0
              THEN recs = {}
              ELSE \E i \in recs :
                      /\ recs = {i}
                      /\ Files[i].id = first[p].id
                      /\ Files[i].project = first[p].project

\* "A/B.strings" was registered under "App" and then again under "Other"
C3_Witness ==
    /\ registered.path = "A/B.strings"
    /\ registered.project = "Other"
    /\ registered.raised = OK
    /\ first["A/B.strings"].project = "App"
    /\ registered.id = first["A/B.strings"].id
    /\ Len(Files) = 1

\* C4: a merge that finds a record at its slot runs no INSERT and changes,
\* on that record, no language column but the ones its tran elements name
\* (and no other record); and merging (en 'Hello', de 'Hallo') into the slot
\* that holds the record of (en 'Hello', fr 'Bonjour') leaves exactly one
\* record there, with en 'Hello', fr 'Bonjour', de 'Hallo'.
C4_UpdateTouchesOnlyTarget ==
    (merged # <<>> /\ Found(merged[1]) # {}) =>
        LET m == merged[1]
        IN  /\ m.inserts = 0
            /\ Len(Localizations) = Len(m.pre)
            /\ \A i \in 1..Len(m.pre) : \A c \in DOMAIN m.pre[i].lang :
                  (i \notin Found(m) \/ c \notin Targets(m.item))
                      => Localizations[i].lang[c] = m.pre[i].lang[c]
            /\ (/\ m.item.base = [loc |-> en, text |-> "Hello"]
                /\ m.item.trans = <<[loc |-> de, text |-> "Hallo"]>>
                /\ m.raised = OK
                /\ \E i \in Found(m) :
                      m.pre[i].lang = (en :> "Hello" @@ fr :> "Bonjour"
                                          @@ de :> NULL))
               => \E i \in 1..Len(Localizations) :
                     /\ AtSlot(Localizations, m.file_id, m.item.position) = {i}
                     /\ [c \in {en, fr, de} |-> Localizations[i].lang[c]] =
                          (en :> "Hello" @@ fr :> "Bonjour" @@ de :> "Hallo")

\* (en 'Hello', fr 'Bonjour') then (en 'Hello', de 'Hallo') were merged into
\* one slot
C4_Witness ==
    /\ merged # <<>>
    /\ merged[1].raised = OK
    /\ merged[1].inserts = 0
    /\ merged[1].item.trans = <<[loc |-> de, text |-> "Hallo"]>>
    /\ fr \in Range(merged[1].columns)
    /\ \E i \in Found(merged[1]) :
          /\ merged[1].pre[i].lang[fr] = "Bonjour"
          /\ merged[1].pre[i].lang[de] = NULL
          /\ [c \in {en, fr, de} |-> Localizations[i].lang[c]] =
                (en :> "Hello" @@ fr :> "Bonjour" @@ de :> "Hallo")

\* C5: on a record that exists, every language column that holds a text and
\* that the merge does not name as a target -- the base-language column
\* among them -- keeps its text, also when the merged item carries another
\* base text.
C5_BaseTextKept ==
    (merged # <<>> /\ Found(merged[1]) # {}) =>
        LET m == merged[1]
        IN  \A i \in Found(m) : \A c \in Range(m.columns) \ Targets(m.item) :
                m.pre[i].lang[c] # NULL
                    => Localizations[i].lang[c] = m.pre[i].lang[c]

\* a later item with another base text for the record's base language was
\* merged, its targets being other languages
C5_Witness ==
    /\ merged # <<>>
    /\ merged[1].raised = OK
    /\ merged[1].item.trans # <<>>
    /\ \E i \in Found(merged[1]) :
          LET b == format_language(merged[1].item.base.loc)
          IN  /\ b \notin Targets(merged[1].item)
              /\ b \in Range(merged[1].columns)
              /\ merged[1].pre[i].lang[b] # NULL
              /\ merged[1].pre[i].lang[b] # merged[1].item.base.text
              /\ Localizations[i].lang[b] = merged[1].pre[i].lang[b]

\* C6: no step removes or reorders a language column, no column name occurs
\* twice, and add_language for a name that is a column already leaves the
\* columns and the rows as they are and raises nothing.
C6_ColumnsOnlyGrow ==
    [][/\ IsPrefix(columns, columns')
       /\ \A i, j \in 1..Len(columns') : columns'[i] = columns'[j] => i = j
       /\ (pc = "add_language" /\ language \in Range(columns))
             => (/\ columns' = columns
                 /\ Localizations' = Localizations
                 /\ pc' = "project")]_vars

\* add_language was called for a language added by an earlier archive
C6_Witness ==
    /\ altered.msg = "duplicate column name"
    /\ altered.language # en
    /\ altered.raised = OK
    /\ Len(columns) = 2
    /\ Localizations # <<>>

\* rows as they are once every column of cols is added
Widen(rws, cols) ==
    [i \in 1..Len(rws) |->
        [rws[i] EXCEPT !.lang =
            [c \in Range(cols) |->
                IF c \in DOMAIN rws[i].lang THEN rws[i].lang[c] ELSE NULL]]]

\* what the two merges give, on the columns cols, when the later one is
\* applied first
Swapped(A, B, fid, cols, fls, pre) ==
    LET r1 == add_text_item(cols, fls, Widen(pre, cols), B, fid)
    IN  IF r1.raised # OK
        THEN [rows |-> r1.rows, raised |-> r1.raised]
        ELSE LET r2 == add_text_item(cols, fls, r1.rows, A, fid)
             IN  [rows |-> r2.rows, raised |-> r2.raised]

C8_OnlyDuplicateColumnSwallowed ==
    (altered.err # OK /\ altered.msg # "duplicate column name")
        => altered.raised # OK

\* C9: when convert has returned or raised, no disk image is attached, and
\* while an archive is processed none but its own is.
C9_MountReleased ==
    /\ pc \in {"main", "done", "aborted"} => mounted = {}
    /\ mounted \subseteq {archive}

\* processing an attached archive failed and the run ended
C9_Witness ==
    /\ pc = "aborted"
    /\ usable
    /\ merged # <<>>
    /\ merged[1].raised # OK
    /\ mounted = {}

\* C10: from an attach that gave no usable mount point on, the store is not
\* written, and the run goes nowhere but to its abort: no add_language, no
\* document, no further archive.
C10_MountFailureAborts ==
    [][(archive' >= 1 /\ ~usable')
       => (/\ pc' \in {"mounted", "unwinding", "aborted"}
           /\ store' = store
           /\ (~usable /\ archive >= 1) => archive' = archive)]_vars

\* the attach of the second archive failed after the first was stored
C10_Witness ==
    /\ pc = "aborted"
    /\ ~usable
    /\ archive = 2
    /\ Localizations # <<>>

\* C11: the step on which an exception is raised leaves Files, the columns
\* and Localizations as the writes committed before it made them, and from
\* then on no text item, File element or archive is processed and the store
\* is not written: the run only releases the mount and ends.
C11_FailStopKeepsCommitted ==
    [][/\ (pc' \in {"unwinding", "aborted"}) => store' = store
       /\ (pc \in {"unwinding", "aborted"})
             => (/\ pc' = "aborted"
                 /\ nitems' = nitems
                 /\ nfiles' = nfiles
                 /\ archive' = archive)]_vars

\* a text item of the second archive raised after a text item of the first
\* archive had been stored, and the run ended with that record in the store
C11_Witness ==
    /\ pc = "aborted"
    /\ archive = 2
    /\ nitems = 2
    /\ merged # <<>>
    /\ merged[1].raised # OK
    /\ Len(Localizations) = 1
    /\ Localizations = merged[1].pre

\* C12: the column en exists, and holds a text on every record of
\* Localizations, whatever base and target languages the merged items carry
\* (a merge that would store a record without en raises and stores nothing).
C12_DefaultLanguageNotNull ==
    /\ en \in Range(columns)
    /\ \A i \in 1..Len(Localizations) :
          /\ DOMAIN Localizations[i].lang = Range(columns)
          /\ Localizations[i].lang[en] # NULL
    /\ (/\ merged # <<>>
        /\ merged[1].item.trans # <<>>
        /\ Found(merged[1]) = {}
        /\ en \notin {w[1] : w \in Writes(merged[1].item)})
          => (merged[1].raised # OK /\ Localizations = merged[1].pre)

\* an item whose base language is fr and whose target is de was merged into
\* a record another item had created and whose column de was null: the
\* record holds en as before
C12_Witness ==
    /\ merged # <<>>
    /\ merged[1].raised = OK
    /\ merged[1].item.base.loc = fr
    /\ merged[1].item.trans = <<[loc |-> de, text |-> "Hallo"]>>
    /\ \E i \in Found(merged[1]) :
          /\ merged[1].pre[i].lang[de] = NULL
          /\ Localizations[i].lang[en] # NULL
          /\ Localizations[i].lang[de] = "Hallo"

\* C13: every language column a merge names in its UPDATE and INSERT
\* statements -- the base language and each target language of the text
\* item -- is a column of Localizations when add_text_item is called, its
\* creation step having completed before.
C13_MergedColumnsEnsured ==
    (merged # <<>> /\ merged[1].item.trans # <<>>)
        => \A w \in Writes(merged[1].item) : w[1] \in Range(merged[1].columns)

MergeIntoCreated ==
    /\ MergeStep
    /\ merged # <<>>
    /\ merged[1].raised = OK
    /\ merged[1].inserts = 1
    /\ merged'[1].file_id = merged[1].file_id
    /\ merged'[1].item.position = merged[1].item.position

\* C15 as stated: the column of the base language of the item that created
\* a record is changed by no merge of a later text item, whatever base and
\* target languages that item carries.
C15_BaseColumnNeverRewritten ==
    [][MergeIntoCreated
       => \A i \in AtSlot(Localizations, merged[1].file_id,
                          merged[1].item.position) :
             Localizations'[i].lang[format_language(merged[1].item.base.loc)]
               = Localizations[i].lang[format_language(merged[1].item.base.loc)]
      ]_vars

\* C15 as amended: the column of the base language of the item that created
\* a record is changed by no merge of a later text item unless a tran
\* element of that item names the language as its target; the base text of
\* a later item is never written into the record.
C15_BaseColumnOnlyRewrittenAsTarget ==
    [][(/\ MergeIntoCreated
        /\ format_language(merged[1].item.base.loc)
              \notin Targets(merged'[1].item))
       => \A i \in AtSlot(Localizations, merged[1].file_id,
                          merged[1].item.position) :
             Localizations'[i].lang[format_language(merged[1].item.base.loc)]
               = Localizations[i].lang[format_language(merged[1].item.base.loc)]
      ]_vars

\* an item whose base language is fr was merged into a record created with
\* the base language en (fr is no column, so no item with the base language
\* fr can have created it), and en holds what it held
C15_Witness ==
    /\ merged # <<>>
    /\ merged[1].raised = OK
    /\ merged[1].inserts = 0
    /\ merged[1].item.base.loc = fr
    /\ merged[1].item.trans # <<>>
    /\ en \notin Targets(merged[1].item)
    /\ fr \notin Range(columns)
    /\ \E i \in Found(merged[1]) :
          Localizations[i].lang[en] = merged[1].pre[i].lang[en]

\* C16 as stated: once add_text_item has returned for a text item, a record
\* exists at the item's (file_id, position), also when the item has a base
\* element and no tran element.
C16_RecordAfterAnyItem ==
    (merged # <<>> /\ merged[1].raised = OK)
        => AtSlot(Localizations, merged[1].file_id,
                  merged[1].item.position) # {}

\* C16 as amended: once add_text_item has returned for a text item that has
\* at least one tran element, exactly one record exists at the item's
\* (file_id, position): created by this call when none was there, the one
\* that was there, updated in place, otherwise; a text item without tran
\* elements runs no statement and leaves the store as it is.
C16_RecordAfterTranslatedItem ==
    [][(MergeStep /\ merged'[1].raised = OK) =>
         LET m == merged'[1]
             now == AtSlot(Localizations', m.file_id, m.item.position)
         IN  IF m.item.trans = <<>>
             THEN /\ m.inserts = 0
                  /\ m.rowcounts = <<>>
                  /\ Localizations' = Localizations
             ELSE /\ Cardinality(now) = 1
                  /\ IF Found(m) = {}
                     THEN m.inserts = 1 /\ now = {Len(Localizations) + 1}
                     ELSE m.inserts = 0 /\ now = Found(m)
                          /\ Len(Localizations') = Len(Localizations)]_vars

\* the first text item of the run's only File element had no tran element
\* and left no record at its slot; the second one, for the same slot, has
\* created the record
C16_Witness ==
    /\ merged # <<>>
    /\ merged[1].raised = OK
    /\ nfiles = 1
    /\ nitems = 2
    /\ merged[1].pre = <<>>
    /\ merged[1].item.trans # <<>>
    /\ merged[1].inserts = 1
    /\ AtSlot(Localizations, merged[1].file_id,
              merged[1].item.position) = {1}

\* the ids of the Files records
FileIds == {Files[i].id : i \in 1..Len(Files)}

\* C17: the file_id of every Localizations record is the id of a Files
\* record, and so is the file id every add_text_item call was given; the
\* Files records keep the ids they were given, one record per id.
C17_FileIdReferencesFiles ==
    /\ \A i \in 1..Len(Localizations) : Localizations[i].file_id \in FileIds
    /\ merged # <<>> => merged[1].file_id \in FileIds
    /\ \A i \in 1..Len(Files) : Files[i].id = i
    /\ file_id # 0 => file_id \in FileIds

\* records of two File elements are stored
C17_Witness ==
    /\ Len(Files) = 2
    /\ Len(Localizations) = 2
    /\ Localizations[1].file_id # Localizations[2].file_id
    /\ merged[1].file_id = Localizations[2].file_id

\* C18: when a statement of add_text_item raises, Localizations is as it
\* was when add_text_item was called: what the statements for the earlier
\* tran elements of the text item wrote is gone, and the records of the
\* text items merged before are as they were committed.
C18_TextItemAtomic ==
    [][(MergeStep /\ merged'[1].raised # OK)
       => (Localizations' = Localizations /\ pc' = "unwinding")]_vars

\* the statements for the first tran element of a text item had run (its
\* UPDATE reporting one row) when the UPDATE for the second one raised, and
\* the record an earlier text item had stored is as it was
C18_Witness ==
    /\ merged # <<>>
    /\ merged[1].raised = OperationalError
    /\ Len(merged[1].item.trans) = 2
    /\ merged[1].rowcounts = <<1, 0>>
    /\ merged[1].pre # <<>>
    /\ merged[1].pre[1].lang[format_language(merged[1].item.trans[1].loc)]
          # merged[1].item.trans[1].text
    /\ Localizations = merged[1].pre

====
